---- MODULE Spec2Model ----
(***************************************************************************)
(* Model of the backpressure buffer (StreamController) and of the          *)
(* reconnecting recognition session (RecognizerWrapper).                   *)
(*                                                                         *)
(* A chunk is a span of the pushed byte stream: [lo |-> offset of its      *)
(* first byte, len |-> its byte length].  Buffer.slice is span arithmetic. *)
(* JavaScript runs each handler to completion, so every handler is one     *)
(* action; the sink's answer to each write (accepted, saturated, raised)   *)
(* is chosen nondeterministically per write.                               *)
(***************************************************************************)
EXTENDS Integers, Sequences, FiniteSets, TLC

\* ------------------------------------------------------------------ bounds
MaxPushes == 2
MaxChunk == 3
MaxStarts == 3
ScenarioBytes == 70000
MaxCtorOpt == 3
MaxSessionPushes == 1
MaxLivePushes == 2
NumExtSinks == 1
SmallMaxBufferBytes == 4
SmallBatchBytes == 2

\* ------------------------------------------------------- program constants
DefaultRate == 16000
FallbackMaxBufferBytes == 64000
DefaultBatchBytes == 65536
BackoffBaseMs == 1000
BackoffCapMs == 15000

Null == 0
NotABuffer == [lo |-> -1, len |-> -1]

VARIABLES
  maxBufferBytes, highWaterBytes, resumeWaterBytes, batchBytes,
  pushStream, queue, totalQueued, lostBytes, sentBytes,
  writing, pausedByBackpressure, highEmitted, drainTimer,
  listeners, sinkClosed,
  written, events, pushed, pushCalls, lastOp,
  recognizer, asrPushStream, reconnects, timers, recPhase, stopAsked,
  nextId, userStopped, delays

cfgVars == <<maxBufferBytes, highWaterBytes, resumeWaterBytes, batchBytes>>
bufVars == <<pushStream, queue, totalQueued, lostBytes, sentBytes, writing,
             pausedByBackpressure, highEmitted, listeners, written, events,
             lastOp>>
asrVars == <<recognizer, asrPushStream, reconnects, timers, recPhase,
             stopAsked, nextId, userStopped, delays>>
vars == <<cfgVars, bufVars, drainTimer, sinkClosed, pushed, pushCalls, asrVars>>

\* ------------------------------------------------------------ helpers
Min(a, b) == IF a < b THEN a ELSE b

RECURSIVE Pow2(_)
Pow2(n) == IF n = 0 THEN 1 ELSE 2 * Pow2(n - 1)

\* Math.floor(x * tenths / 10) for x >= 0
FloorTenths(x, tenths) == (x * tenths) \div 10

\* a || b on numbers: 0 (and an absent option, modelled as 0) is falsy
OrElse(a, b) == IF a # 0 THEN a ELSE b

slice(buf, from, to) == [lo |-> buf.lo + from, len |-> to - from]
\* faulty variant: the remainder is cut from the wrong end of the chunk
sliceFrom_fromStart(buf, from) == [lo |-> buf.lo, len |-> buf.len - from]

sliceFrom(buf, from) == [lo |-> buf.lo + from, len |-> buf.len - from]

RECURSIVE SumLen(_)
SumLen(q) == IF q = <<>> THEN 0 ELSE Head(q).len + SumLen(Tail(q))

\* ------------------------------------------------------------ constructor
\* opts fields: 0 stands for an option that was not supplied
StreamControllerOpts ==
  { [rate |-> 0, maxBufferBytes |-> SmallMaxBufferBytes, highWaterBytes |-> 0,
     resumeWaterBytes |-> 0, batchBytes |-> SmallBatchBytes] }

ctorRate(opts) == OrElse(opts.rate, DefaultRate)
ctorMaxBufferBytes(opts) ==
  OrElse(opts.maxBufferBytes, OrElse(ctorRate(opts) * 2 * 2, FallbackMaxBufferBytes))
ctorHighWaterBytes(opts) ==
  OrElse(opts.highWaterBytes, FloorTenths(ctorMaxBufferBytes(opts), 9))
ctorResumeWaterBytes(opts) ==
  OrElse(opts.resumeWaterBytes, FloorTenths(ctorMaxBufferBytes(opts), 3))
ctorBatchBytes(opts) == OrElse(opts.batchBytes, DefaultBatchBytes)

\* ------------------------------------------------------------ buffer record
\* The controller's fields (plus the observation history) gathered in one
\* record so that a handler can call another one.
Ctl == [pushStream |-> pushStream, queue |-> queue, totalQueued |-> totalQueued,
        lostBytes |-> lostBytes, sentBytes |-> sentBytes, writing |-> writing,
        pausedByBackpressure |-> pausedByBackpressure,
        highEmitted |-> highEmitted, listeners |-> listeners,
        written |-> written, events |-> events, lastOp |-> lastOp]

SetCtl(b) ==
  /\ pushStream' = b.pushStream
  /\ queue' = b.queue
  /\ totalQueued' = b.totalQueued
  /\ lostBytes' = b.lostBytes
  /\ sentBytes' = b.sentBytes
  /\ writing' = b.writing
  /\ pausedByBackpressure' = b.pausedByBackpressure
  /\ highEmitted' = b.highEmitted
  /\ listeners' = b.listeners
  /\ written' = b.written
  /\ events' = b.events
  /\ lastOp' = b.lastOp

\* what the last handler did (observation only)
NewOp(name, chunk) ==
  [op |-> name, chunk |-> chunk, fast |-> "none", evicted |-> 0,
   wrote |-> 0, split |-> FALSE, drainThrew |-> FALSE, fullAt |-> 0]

Begin(b, name, chunk) ==
  [b EXCEPT !.lastOp = NewOp(name, chunk)]

\* ------------------------------------------------------------ sink
\* answers a sink can give to write(chunk): accepted, saturated, or raise.
\* A closed push stream raises on every write.
Responses(s) == IF s \in sinkClosed THEN {"throw"} ELSE {"ok", "full", "throw"}

\* the effect of a write that returned: the sink holds the bytes
sinkWrite(b, chunk) ==
  [b EXCEPT !.written = Append(@, chunk),
            !.lastOp.wrote = @ + chunk.len]

emit(b, ev) == [b EXCEPT !.events = Append(@, ev)]

\* ------------------------------------------------------------ handlers
reportIfNeeded(b, due) == IF due THEN [b EXCEPT !.sentBytes = 0] ELSE b

\* faulty variant: the swap starts the new sink with an empty queue
attachStream_resets(b, stream) ==
  [b EXCEPT !.listeners = IF stream # Null THEN {stream} ELSE {},
            !.pushStream = stream, !.queue = <<>>, !.totalQueued = 0]

\* faulty variant: the previous sink's subscription is not removed
attachStream_keepsOld(b, stream) ==
  LET b2 == [b EXCEPT !.pushStream = stream]
  IN IF b2.pushStream # Null
     THEN [b2 EXCEPT !.listeners = @ \cup {stream}] ELSE b2

\* faulty variant: a new sink is taken to be writable
attachStream_clearsPause(b, stream) ==
  [b EXCEPT !.listeners = IF stream # Null THEN {stream} ELSE {},
            !.pushStream = stream, !.pausedByBackpressure = FALSE]

attachStream(b, stream) ==
  LET b1 == IF b.pushStream # Null
            THEN [b EXCEPT !.listeners = @ \ {b.pushStream}] ELSE b
      b2 == [b1 EXCEPT !.pushStream = stream]
  IN IF b2.pushStream # Null
     THEN [b2 EXCEPT !.listeners = @ \cup {stream}] ELSE b2

\* faulty variant: the resume mark is not consulted
okCheck_ignoresWater(b) ==
  IF b.highEmitted
  THEN emit([b EXCEPT !.highEmitted = FALSE], "ok")
  ELSE b

okCheck(b) ==
  IF b.highEmitted /\ b.totalQueued <= resumeWaterBytes
  THEN emit([b EXCEPT !.highEmitted = FALSE], "ok")
  ELSE b

\* faulty variant: the whole head chunk is subtracted although only a part
\* of it was written
drainSent_wholeLen(b, buf, take, chunk) ==
  LET w == sinkWrite(b, chunk)
  IN [w EXCEPT !.sentBytes = @ + chunk.len,
               !.queue = IF take = buf.len THEN Tail(b.queue)
                         ELSE <<sliceFrom(buf, take)>> \o Tail(b.queue),
               !.totalQueued = @ - buf.len,
               !.lastOp.split = @ \/ take # buf.len]

\* one iteration of the drain loop whose write returned: the head chunk, or
\* the first take bytes of it, leaves the queue
drainSent(b, buf, take, chunk) ==
  LET w == sinkWrite(b, chunk)
  IN [w EXCEPT !.sentBytes = @ + chunk.len,
               !.queue = IF take = buf.len THEN Tail(b.queue)
                         ELSE <<sliceFrom(buf, take)>> \o Tail(b.queue),
               !.totalQueued = @ - chunk.len,
               !.lastOp.split = @ \/ take # buf.len]

\* one iteration whose write raised: catch (err) { break; }
drainThrown(b) == [b EXCEPT !.lastOp.drainThrew = TRUE]

\* faulty variant: a saturated sink is not remembered
drainSaturated_noFlag(sent) ==
  [sent EXCEPT !.lastOp.fullAt = Len(sent.written)]

\* one iteration whose write returned false: if (!ok) { flag; break; }.
\* fullAt records how many writes had been issued when the sink said so.
drainSaturated(sent) ==
  [sent EXCEPT !.pausedByBackpressure = TRUE,
               !.lastOp.fullAt = Len(sent.written)]

\* faulty variant: the head chunk is always taken whole
drainTake_wholeChunk(buf, bytesThisTick) == buf.len

\* Math.min(buf.length, this.batchBytes - bytesThisTick)
drainTake(buf, bytesThisTick) == Min(buf.len, batchBytes - bytesThisTick)

RECURSIVE drainLoop(_, _)
drainLoop(b, bytesThisTick) ==
  IF ~(Len(b.queue) # 0 /\ bytesThisTick < batchBytes) THEN {b}
  ELSE
    LET buf == Head(b.queue)
        take == drainTake(buf, bytesThisTick)
        chunk == IF take = buf.len THEN buf ELSE slice(buf, 0, take)
        sent == drainSent(b, buf, take, chunk)
    IN UNION { CASE r = "throw" -> {drainThrown(b)}
                 [] r = "full" -> {drainSaturated(sent)}
                 [] OTHER -> drainLoop(sent, bytesThisTick + chunk.len)
               : r \in Responses(b.pushStream) }

\* variant: a drain that waits for the sink's 'drain' while the flag is set
tryDrain_gated(b, due) ==
  IF b.writing THEN {b}
  ELSE IF b.pushStream = Null THEN {b}
  ELSE IF b.pausedByBackpressure THEN {b}
  ELSE IF Len(b.queue) = 0 THEN {okCheck(b)}
  ELSE { reportIfNeeded(okCheck([d EXCEPT !.writing = FALSE]), due)
         : d \in drainLoop([b EXCEPT !.writing = TRUE], 0) }

tryDrain(b, due) ==
  IF b.writing THEN {b}
  ELSE IF b.pushStream = Null THEN {b}
  ELSE IF Len(b.queue) = 0 THEN {okCheck(b)}
  ELSE { reportIfNeeded(okCheck([d EXCEPT !.writing = FALSE]), due)
         : d \in drainLoop([b EXCEPT !.writing = TRUE], 0) }

onDrain(b, due) == tryDrain([b EXCEPT !.pausedByBackpressure = FALSE], due)

\* faulty variant: the loop never removes the last chunk
evictMore_keepsLast(b) == Len(b.queue) > 1 /\ b.totalQueued > maxBufferBytes

\* faulty variant: the dropped bytes are not counted
evictOne_uncounted(b) ==
  LET dropped == Head(b.queue)
  IN [b EXCEPT !.queue = Tail(@),
               !.totalQueued = @ - dropped.len,
               !.lastOp.evicted = @ + dropped.len]

\* faulty variant: pop() instead of shift() drops the newest chunk
evictOne_fromBack(b) ==
  LET dropped == b.queue[Len(b.queue)]
  IN [b EXCEPT !.queue = SubSeq(@, 1, Len(@) - 1),
               !.totalQueued = @ - dropped.len,
               !.lostBytes = @ + dropped.len,
               !.lastOp.evicted = @ + dropped.len]

\* faulty variant: the loop evicts down to the high-water mark
evictMore_toHighWater(b) == Len(b.queue) # 0 /\ b.totalQueued > highWaterBytes

\* variant: only the excess bytes are cut off the head chunk
evictOne_excessOnly(b) ==
  LET head == Head(b.queue)
      cut == Min(head.len, b.totalQueued - maxBufferBytes)
  IN [b EXCEPT !.queue = IF cut = head.len THEN Tail(@)
                         ELSE <<sliceFrom(head, cut)>> \o Tail(@),
               !.totalQueued = @ - cut,
               !.lostBytes = @ + cut,
               !.lastOp.evicted = @ + cut]

\* the eviction loop's condition and body
evictMore(b) == Len(b.queue) # 0 /\ b.totalQueued > maxBufferBytes

evictOne(b) ==
  LET dropped == Head(b.queue)
  IN [b EXCEPT !.queue = Tail(@),
               !.totalQueued = @ - dropped.len,
               !.lostBytes = @ + dropped.len,
               !.lastOp.evicted = @ + dropped.len]

RECURSIVE evictLoop(_)
evictLoop(b) == IF evictMore(b) THEN evictLoop(evictOne(b)) ELSE b

evict(b) == IF b.totalQueued > maxBufferBytes THEN evictLoop(b) ELSE b

\* faulty variant: the mark itself does not trip the latch
highCheck_strict(b) ==
  IF b.totalQueued > highWaterBytes /\ ~b.highEmitted
  THEN emit([b EXCEPT !.highEmitted = TRUE], "high")
  ELSE b

\* faulty variant: the latch is not consulted
highCheck_noLatch(b) ==
  IF b.totalQueued >= highWaterBytes
  THEN emit([b EXCEPT !.highEmitted = TRUE], "high")
  ELSE b

highCheck(b) ==
  IF b.totalQueued >= highWaterBytes /\ ~b.highEmitted
  THEN emit([b EXCEPT !.highEmitted = TRUE], "high")
  ELSE b

enqueue(b, chunk) ==
  [b EXCEPT !.queue = Append(@, chunk), !.totalQueued = @ + chunk.len]

\* faulty variant: the backpressure flag is read the wrong way round
fastPathEligible_invertedPause(b) ==
  Len(b.queue) = 0 /\ b.pushStream # Null /\ b.pausedByBackpressure

\* faulty variant: the fast path does not require an empty queue
fastPathEligible_ignoresQueue(b) ==
  b.pushStream # Null /\ ~b.pausedByBackpressure

fastPathEligible(b) ==
  Len(b.queue) = 0 /\ b.pushStream # Null /\ ~b.pausedByBackpressure

queuedPath(b, chunk, due) ==
  { reportIfNeeded(d, due) : d \in tryDrain(highCheck(evict(enqueue(b, chunk))), due) }

\* faulty variant: catch (err) { return; }
fastPathThrown_returns(b, chunk, due) ==
  {reportIfNeeded([b EXCEPT !.lastOp.fast = "throw"], due)}

\* the fast path's write raised: the empty catch falls through to the queue
fastPathThrown(b, chunk, due) ==
  queuedPath([b EXCEPT !.lastOp.fast = "throw"], chunk, due)

\* faulty variant: a refused fast-path write is not remembered
fastPathWritten_noPause(b, chunk, ok, due) ==
  LET w == sinkWrite([b EXCEPT !.lastOp.fast = IF ok THEN "ok" ELSE "full"], chunk)
      s == [w EXCEPT !.sentBytes = @ + chunk.len]
  IN {reportIfNeeded(s, due)}

\* the fast path's write returned ok (true) or not
fastPathWritten(b, chunk, ok, due) ==
  LET w == sinkWrite([b EXCEPT !.lastOp.fast = IF ok THEN "ok" ELSE "full"], chunk)
      s == [w EXCEPT !.sentBytes = @ + chunk.len]
      p == IF ~ok THEN [s EXCEPT !.pausedByBackpressure = TRUE] ELSE s
  IN {reportIfNeeded(p, due)}

push(b, chunk, due) ==
  IF chunk = NotABuffer THEN {b}
  ELSE IF fastPathEligible(b)
  THEN UNION { IF r = "throw" THEN fastPathThrown(b, chunk, due)
               ELSE fastPathWritten(b, chunk, r = "ok", due)
               : r \in Responses(b.pushStream) }
  ELSE queuedPath(b, chunk, due)

\* ------------------------------------------------------------ session
\* faulty variant: the delay is not capped
backoffDelay_uncapped(attempt) == BackoffBaseMs * Pow2(attempt)

backoffDelay(attempt) == Min(BackoffCapMs, BackoffBaseMs * Pow2(attempt))

\* faulty variant: stop() keeps its references to the recognizer and stream
asrStop_keepsRefs ==
  /\ stopAsked' = IF recognizer # Null THEN stopAsked \cup {recognizer} ELSE stopAsked
  /\ sinkClosed' = IF asrPushStream # Null THEN sinkClosed \cup {asrPushStream}
                   ELSE sinkClosed
  /\ recognizer' = recognizer
  /\ asrPushStream' = asrPushStream

\* faulty variant: stop() forgets the push stream without closing it
asrStop_noClose ==
  /\ stopAsked' = IF recognizer # Null THEN stopAsked \cup {recognizer} ELSE stopAsked
  /\ sinkClosed' = sinkClosed
  /\ recognizer' = Null
  /\ asrPushStream' = Null

\* RecognizerWrapper.stop(): ask the engine to stop, close the push stream,
\* forget both references.  The controller is not told.
asrStop ==
  /\ stopAsked' = IF recognizer # Null THEN stopAsked \cup {recognizer} ELSE stopAsked
  /\ sinkClosed' = IF asrPushStream # Null THEN sinkClosed \cup {asrPushStream}
                   ELSE sinkClosed
  /\ recognizer' = Null
  /\ asrPushStream' = Null

\* RecognizerWrapper.start(): a fresh push stream, attached to the controller,
\* and a fresh recognizer that begins to start.
asrStart(name) ==
  /\ nextId <= MaxStarts
  /\ asrPushStream' = nextId
  /\ SetCtl(attachStream(Begin(Ctl, name, NotABuffer), nextId))
  /\ recognizer' = nextId
  /\ recPhase' = [recPhase EXCEPT ![nextId] = "starting"]
  /\ nextId' = nextId + 1

\* RecognizerWrapper.reconnect()
asrReconnect(name) ==
  /\ asrStop
  /\ delays' = Append(delays, backoffDelay(reconnects))
  /\ reconnects' = reconnects + 1
  /\ timers' = timers + 1
  /\ SetCtl(Begin(Ctl, name, NotABuffer))
  /\ UNCHANGED <<nextId, userStopped>>

\* ------------------------------------------------------------ initial state
InitWith(optsChoices) ==
  /\ \E opts \in optsChoices :
       /\ maxBufferBytes = ctorMaxBufferBytes(opts)
       /\ highWaterBytes = ctorHighWaterBytes(opts)
       /\ resumeWaterBytes = ctorResumeWaterBytes(opts)
       /\ batchBytes = ctorBatchBytes(opts)
  /\ pushStream = Null
  /\ queue = <<>>
  /\ totalQueued = 0
  /\ lostBytes = 0
  /\ sentBytes = 0
  /\ writing = FALSE
  /\ pausedByBackpressure = FALSE
  /\ highEmitted = FALSE
  /\ drainTimer = TRUE
  /\ listeners = {}
  /\ sinkClosed = {}
  /\ written = <<>>
  /\ events = <<>>
  /\ pushed = 0
  /\ pushCalls = 0
  /\ lastOp = NewOp("init", NotABuffer)
  /\ recognizer = Null
  /\ asrPushStream = Null
  /\ reconnects = 0
  /\ timers = 0
  /\ recPhase = [r \in 1..(MaxStarts) |-> "unused"]
  /\ stopAsked = {}
  /\ nextId = 1
  /\ userStopped = FALSE
  /\ delays = <<>>

Init == InitWith(StreamControllerOpts)

\* new StreamController() with no option supplied
NoOpts == [rate |-> 0, maxBufferBytes |-> 0, highWaterBytes |-> 0,
           resumeWaterBytes |-> 0, batchBytes |-> 0]

InitDefault == InitWith({NoOpts})

\* new StreamController(opts) for small supplied values, each possibly absent
CtorOpts ==
  [rate : {0, 1}, maxBufferBytes : 0..MaxCtorOpt, highWaterBytes : 0..MaxCtorOpt,
   resumeWaterBytes : 0..MaxCtorOpt, batchBytes : {SmallBatchBytes}]

InitCtor == InitWith(CtorOpts)

\* ------------------------------------------------------------ buffer actions
ExtSinks == { -i : i \in 1..NumExtSinks }

\* controller.push(chunk): a Buffer of 0..MaxChunk bytes or one longer than
\* the whole buffer, or (-1) something that is not a Buffer
ChunkLens == (0..MaxChunk) \cup {SmallMaxBufferBytes + 1}

PushUpTo(limit, lens) ==
  /\ pushCalls < limit
  /\ \E len \in lens, due \in BOOLEAN :
       LET chunk == IF len = -1 THEN NotABuffer ELSE [lo |-> pushed, len |-> len]
       IN /\ \E b \in push(Begin(Ctl, "push", chunk), chunk, due) : SetCtl(b)
          /\ pushed' = IF len = -1 THEN pushed ELSE pushed + len
  /\ pushCalls' = pushCalls + 1
  /\ UNCHANGED <<cfgVars, drainTimer, sinkClosed, asrVars>>

Push == PushUpTo(MaxPushes, ChunkLens \cup {-1})

\* the 50 ms interval timer
DrainTick ==
  /\ drainTimer
  /\ \E due \in BOOLEAN :
       \E b \in tryDrain(Begin(Ctl, "tick", NotABuffer), due) : SetCtl(b)
  /\ UNCHANGED <<cfgVars, drainTimer, sinkClosed, pushed, pushCalls, asrVars>>

\* a sink the controller listens to emits 'drain'
OnDrain ==
  /\ \E s \in listeners, due \in BOOLEAN :
       \E b \in onDrain(Begin(Ctl, "onDrain", NotABuffer), due) : SetCtl(b)
  /\ UNCHANGED <<cfgVars, drainTimer, sinkClosed, pushed, pushCalls, asrVars>>

\* controller.attachStream(stream) called by the owner of the controller
AttachStream ==
  /\ \E s \in ExtSinks \cup {Null} :
       SetCtl(attachStream(Begin(Ctl, "attachStream", NotABuffer), s))
  /\ UNCHANGED <<cfgVars, drainTimer, sinkClosed, pushed, pushCalls, asrVars>>

\* controller.stop()
ControllerStop ==
  /\ drainTimer
  /\ drainTimer' = FALSE
  /\ SetCtl(Begin(Ctl, "controllerStop", NotABuffer))
  /\ UNCHANGED <<cfgVars, sinkClosed, pushed, pushCalls, asrVars>>

\* ------------------------------------------------------------ session actions
bufFrame == UNCHANGED <<cfgVars, drainTimer, pushed, pushCalls>>

\* asr.start() at boot
Start ==
  /\ nextId = 1 /\ ~userStopped
  /\ asrStart("start")
  /\ UNCHANGED <<reconnects, timers, stopAsked, userStopped, delays, sinkClosed>>
  /\ bufFrame

\* the setTimeout callback of reconnect(): () => this.start()
TimerFire ==
  /\ timers > 0
  /\ timers' = timers - 1
  /\ asrStart("timerStart")
  /\ UNCHANGED <<reconnects, stopAsked, userStopped, delays, sinkClosed>>
  /\ bufFrame

\* asr.stop() called by the owner (shutdown)
Stop ==
  /\ asrStop
  /\ userStopped' = TRUE
  /\ SetCtl(Begin(Ctl, "stop", NotABuffer))
  /\ UNCHANGED <<reconnects, timers, recPhase, nextId, delays>>
  /\ bufFrame

\* faulty variant: a confirmed start resets the attempt counter
EngineStarted_resets ==
  /\ \E r \in 1..MaxStarts :
       /\ recPhase[r] = "starting"
       /\ recPhase' = [recPhase EXCEPT ![r] = "running"]
  /\ SetCtl(Begin(Ctl, "started", NotABuffer))
  /\ reconnects' = 0
  /\ UNCHANGED <<recognizer, asrPushStream, timers, stopAsked,
                 nextId, userStopped, delays, sinkClosed>>
  /\ bufFrame

\* startContinuousRecognitionAsync success callback: log only
EngineStarted ==
  /\ \E r \in 1..MaxStarts :
       /\ recPhase[r] = "starting"
       /\ recPhase' = [recPhase EXCEPT ![r] = "running"]
  /\ SetCtl(Begin(Ctl, "started", NotABuffer))
  /\ UNCHANGED <<recognizer, asrPushStream, reconnects, timers, stopAsked,
                 nextId, userStopped, delays, sinkClosed>>
  /\ bufFrame

\* startContinuousRecognitionAsync error callback
EngineStartError ==
  /\ \E r \in 1..MaxStarts :
       /\ recPhase[r] = "starting"
       /\ recPhase' = [recPhase EXCEPT ![r] = "ended"]
  /\ asrReconnect("startError")
  /\ bufFrame

\* recognizer.canceled with reason Error
EngineCanceledError ==
  /\ \E r \in 1..MaxStarts :
       /\ recPhase[r] = "running"
       /\ recPhase' = [recPhase EXCEPT ![r] = "canceled"]
  /\ asrReconnect("canceledError")
  /\ bufFrame

\* recognizer.canceled with another reason (end of stream): log only
EngineCanceledOther ==
  /\ \E r \in 1..MaxStarts :
       /\ recPhase[r] = "running"
       /\ recPhase' = [recPhase EXCEPT ![r] = "canceled"]
  /\ SetCtl(Begin(Ctl, "canceledOther", NotABuffer))
  /\ UNCHANGED <<recognizer, asrPushStream, reconnects, timers, stopAsked,
                 nextId, userStopped, delays, sinkClosed>>
  /\ bufFrame

\* recognizer.sessionStopped
EngineSessionStopped ==
  /\ \E r \in 1..MaxStarts :
       /\ recPhase[r] \in {"running", "canceled"}
       /\ recPhase' = [recPhase EXCEPT ![r] = "ended"]
  /\ asrReconnect("sessionStopped")
  /\ bufFrame

\* audio pushed by the feeder while the session runs, fails and restarts:
\* one tick-sized chunk per tick
SessionPush == PushUpTo(MaxSessionPushes, {MaxChunk})

NextBuffer == Push \/ DrainTick \/ OnDrain \/ AttachStream \/ ControllerStop
NextSession ==
  \/ Start \/ TimerFire \/ Stop \/ EngineStarted \/ EngineStartError
  \/ EngineCanceledError \/ EngineCanceledOther \/ EngineSessionStopped
  \/ SessionPush \/ DrainTick \/ OnDrain

\* the overflow scenario: equal-sized chunks pushed into a default-configured
\* controller, up to ScenarioBytes bytes in all
ScenarioChunkLens == {500, 1000, 2000, 7000, 14000, 70000}

ScenarioPush ==
  /\ pushed < ScenarioBytes
  /\ \E len \in ScenarioChunkLens, due \in BOOLEAN :
       LET chunk == [lo |-> pushed, len |-> len]
       IN /\ pushed + len <= ScenarioBytes
          /\ pushCalls = 0 \/ len * pushCalls = pushed
          /\ \E b \in push(Begin(Ctl, "push", chunk), chunk, due) : SetCtl(b)
          /\ pushed' = pushed + len
  /\ pushCalls' = pushCalls + 1
  /\ UNCHANGED <<cfgVars, drainTimer, sinkClosed, asrVars>>

NextOverflow == ScenarioPush \/ DrainTick

SpecOverflow == InitDefault /\ [][NextOverflow]_vars

\* any constructed controller, given one chunk and its drain timer
CtorPush == PushUpTo(1, 1..MaxChunk)

NextCtor == CtorPush \/ DrainTick

SpecCtor == InitCtor /\ [][NextCtor]_vars

\* the buffer alone, driven through its public interface
SpecBuffer == Init /\ [][NextBuffer]_vars

\* the session and the buffer it feeds
SpecSession == Init /\ [][NextSession]_vars

\* the session with its reconnect timers running: a timer set by setTimeout
\* fires once its delay has elapsed
SpecSessionLive == SpecSession /\ WF_vars(TimerFire)

\* the last chunks of a feed: a short one or a tick-sized one
LivePush == PushUpTo(MaxLivePushes, {1, MaxChunk})

\* the buffer at the end of a feed with its interval timer running: the
\* 50 ms tick keeps firing, sinks are swapped and may send 'drain'
NextDrain == LivePush \/ DrainTick \/ OnDrain \/ AttachStream

SpecDrainLive == Init /\ [][NextDrain]_vars /\ WF_vars(DrainTick)

\* ------------------------------------------------------------ observations
\* stream offsets of the bytes held by a sequence of chunks
Positions(q) == UNION { (q[i].lo)..(q[i].lo + q[i].len - 1) : i \in 1..Len(q) }

\* the chunks follow one another in stream order, without overlap
InOrder(q) == \A i \in 1..(Len(q) - 1) : q[i].lo + q[i].len <= q[i + 1].lo

\* the offset reached when the chunks are laid end to end from pos, or -1
\* when one of them does not start where the previous one ended
RECURSIVE ContigEnd(_, _)
ContigEnd(q, pos) ==
  IF q = <<>> THEN pos
  ELSE IF Head(q).lo # pos THEN -1
  ELSE ContigEnd(Tail(q), pos + Head(q).len)

\* the writes issued by the step under consideration
WrittenNow == SubSeq(written', Len(written) + 1, Len(written'))

DrainOps == {"tick", "onDrain"}
AttachOps == {"attachStream", "start", "timerStart"}

\* ------------------------------------------------------------ claims

\* C1: no reordering.  In every state reached by any interleaving of push,
\* drain ticks, drain notifications and attachStream, the chunks written to
\* sinks (in write order) followed by the chunks still queued are in
\* increasing, non-overlapping stream order.
C1_NoReordering == InOrder(written \o queue)

C1_Witness ==
  /\ lastOp.op \in DrainOps /\ lastOp.wrote > 0
  /\ Len(written) >= 2 /\ Len(queue) >= 1
  /\ \E i \in 1..Len(written) : written[i].len > 0

\* C2: without overflow eviction (lostBytes = 0) the written chunks followed
\* by the queued chunks are exactly the pushed byte stream, so that once the
\* queue is empty the written bytes equal the pushed bytes.
C2_NoLossNoGap == lostBytes = 0 => ContigEnd(written \o queue, 0) = pushed

C2_Witness ==
  /\ lostBytes = 0 /\ queue = <<>> /\ pushed >= 3
  /\ lastOp.op \in DrainOps /\ lastOp.wrote > 0
  /\ Len(written) >= 3

\* C3: bytes accepted by push = bytes written + totalQueued + lostBytes in
\* every state between handlers, and lostBytes never decreases.
C3_Conservation ==
  /\ [](pushed = SumLen(written) + totalQueued + lostBytes)
  /\ [][lostBytes' >= lostBytes]_vars

C3_Witness ==
  /\ lostBytes > 0 /\ totalQueued > 0 /\ SumLen(written) > 0

\* C4: a push that overflows removes only the oldest bytes: what it leaves in
\* the queue are the newest bytes of (old queue + chunk), the bytes it drops
\* (neither kept nor written by its own drain) are the oldest ones, and
\* lostBytes grows by exactly their number.
C4_EvictsFromFront ==
  [][ (lastOp'.op = "push" /\ lostBytes' > lostBytes) =>
        LET all == Positions(Append(queue, lastOp'.chunk))
            kept == Positions(queue')
            dropped == (all \ kept) \ Positions(WrittenNow)
        IN /\ kept \subseteq all
           /\ \A k \in kept : \A o \in all \ kept : o < k
           /\ \A d \in dropped : \A o \in all \ dropped : d < o
           /\ lostBytes' - lostBytes = Cardinality(dropped)
           /\ InOrder(queue') ]_vars

C4_Witness ==
  /\ lastOp.op = "push" /\ lastOp.evicted > 0
  /\ Len(queue) >= 1 /\ totalQueued > 0
  /\ lastOp.evicted < lostBytes + totalQueued

\* C5: capacity bound, 0 <= totalQueued <= maxBufferBytes between handlers.
C5_CapacityBound == 0 <= totalQueued /\ totalQueued <= maxBufferBytes

C5_Witness ==
  /\ lastOp.op = "push" /\ lastOp.evicted > 0
  /\ totalQueued >= highWaterBytes
  /\ totalQueued + lastOp.evicted > maxBufferBytes

\* C6: totalQueued is the sum of the lengths of the queued chunks, also after
\* a head chunk was split by a partial drain and after eviction.
C6_QueueAccounting == totalQueued = SumLen(queue)

C6_Witness ==
  /\ lastOp.op \in DrainOps /\ lastOp.split
  /\ lostBytes > 0 /\ totalQueued > 0

\* C7: the emitted flow-control events are high, ok, high, ok, ...
C7_EventsAlternate ==
  \A i \in 1..Len(events) : events[i] = IF i % 2 = 1 THEN "high" ELSE "ok"

C7_Witness == Len(events) >= 3

\* C8: attaching a sink (directly or from the session's start) leaves the
\* queue, totalQueued, lostBytes and the latch as they were.
C8_AttachFrame ==
  [][ lastOp'.op \in AttachOps =>
        UNCHANGED <<queue, totalQueued, lostBytes, highEmitted>> ]_vars

C8_Witness ==
  /\ lastOp.op = "attachStream" /\ pushStream # Null
  /\ Len(queue) >= 1 /\ highEmitted /\ lostBytes > 0

\* the bytes of the chunk of a push whose fast-path write raised are, after
\* the push, in the queue or were written by the drain that ends the push
FastThrowKeeps ==
  Positions(<<lastOp'.chunk>>) \subseteq Positions(queue') \cup Positions(WrittenNow)

\* a drain whose write raised leaves in the queue exactly what it did not
\* write, the chunk that raised at the head, and the total adjusted by the
\* bytes written
DrainThrowKeeps ==
  /\ Len(queue') >= 1
  /\ Positions(queue') = Positions(queue) \ Positions(WrittenNow)
  /\ totalQueued' = totalQueued - SumLen(WrittenNow)
  /\ (WrittenNow = <<>> => queue' = queue)

\* C9 as stated: a write that raises never drops the chunk.
C9_Original ==
  [][ /\ (lastOp'.op = "push" /\ lastOp'.fast = "throw") => FastThrowKeeps
      /\ (lastOp'.op \in DrainOps /\ lastOp'.drainThrew) => DrainThrowKeeps ]_vars

\* C9 (amended): a write that raises on the fast path queues the chunk, which
\* is then kept (or written by the same push's drain) unless it is longer than
\* maxBufferBytes, in which case overflow eviction removes it at once and
\* counts it in lostBytes; a write that raises in the drain loop leaves the
\* chunk at the head of the queue and the total reduced only by what was
\* written before it.
C9_ThrowKeepsChunk ==
  [][ /\ (lastOp'.op = "push" /\ lastOp'.fast = "throw") =>
           IF lastOp'.chunk.len > maxBufferBytes
           THEN /\ lostBytes' = lostBytes + lastOp'.chunk.len
                /\ queue' = <<>> /\ WrittenNow = <<>>
           ELSE FastThrowKeeps /\ lostBytes' = lostBytes
      /\ (lastOp'.op \in DrainOps /\ lastOp'.drainThrew) => DrainThrowKeeps ]_vars

C9_Witness ==
  /\ lastOp.op = "push" /\ lastOp.fast = "throw"
  /\ lastOp.chunk.len > 0 /\ lastOp.chunk.len <= maxBufferBytes
  /\ lastOp.drainThrew /\ queue = <<lastOp.chunk>>

\* C10: once stop() was called by the owner, no reconnect timer invokes
\* start().
C10_NoRestartAfterStop == ~(userStopped /\ lastOp.op = "timerStart")

\* ------------------------------------------------------------ session claims
ReconnectOps == {"startError", "canceledError", "sessionStopped"}

\* recognizers the engine still runs and nobody asked to stop
LiveRecognizers ==
  { r \in 1..MaxStarts : recPhase[r] \in {"starting", "running", "canceled"}
                         /\ r \notin stopAsked }

\* C11: the session-stopped notification that follows the owner's stop() does
\* not schedule a restart and does not count as an attempt.  (With no
\* reconnect so far, the only stop() the recognizer has seen is the owner's.)
C11_StopSchedulesNothing ==
  [][ (lastOp'.op = "sessionStopped" /\ userStopped /\ reconnects = 0) =>
        (reconnects' = reconnects /\ timers' = timers) ]_vars

\* C12: stop() ends with no recognizer and no push stream, schedules nothing,
\* and when the session is already stopped it asks no engine to stop and
\* closes no stream.
C12_StopIdempotent ==
  [][ lastOp'.op = "stop" =>
        /\ recognizer' = Null /\ asrPushStream' = Null
        /\ reconnects' = reconnects /\ timers' = timers /\ delays' = delays
        /\ (recognizer = Null /\ asrPushStream = Null) =>
              UNCHANGED <<stopAsked, sinkClosed, recPhase>> ]_vars

C12_Witness ==
  /\ lastOp.op = "stop" /\ userStopped
  /\ recognizer = Null /\ asrPushStream = Null
  /\ stopAsked # {} /\ sinkClosed # {} /\ timers > 0

\* C13: at most one reconnect timer is pending and at most one engine
\* connection is live.
C13_SingleRestart == timers <= 1 /\ Cardinality(LiveRecognizers) <= 1

ExpectedDelay(n) ==
  CASE n = 0 -> 1000 [] n = 1 -> 2000 [] n = 2 -> 4000 [] n = 3 -> 8000
    [] OTHER -> 15000

\* C15: the delays computed so far are 1000, 2000, 4000, 8000, 15000,
\* 15000, ...: one per attempt, none above 15000.
C15_BackoffSequence ==
  /\ Len(delays) = reconnects
  /\ \A i \in 1..Len(delays) :
       delays[i] = ExpectedDelay(i - 1) /\ delays[i] <= 15000

C15_Witness == Len(delays) >= 6 /\ delays[6] = 15000

\* C16: every reconnect() adds exactly one to the attempt counter and no
\* other operation changes it.
C16_AttemptsCount ==
  [][ IF lastOp'.op \in ReconnectOps
      THEN reconnects' = reconnects + 1
      ELSE reconnects' = reconnects ]_vars

C16_Witness ==
  /\ lastOp.op = "started" /\ reconnects >= 2
  /\ \E r \in 1..MaxStarts : recPhase[r] = "running" /\ r = recognizer

\* ------------------------------------------------------------ scenarios
ScenarioConfig ==
  /\ maxBufferBytes = 64000 /\ highWaterBytes = 57600
  /\ resumeWaterBytes = 19200 /\ pushStream = Null

\* the queue holds exactly the last 64000 of 70000 bytes, 6000 are counted
\* lost, high was emitted once and ok never
ScenarioOutcome ==
  /\ totalQueued = 64000
  /\ queue # <<>> /\ Head(queue).lo = 6000
  /\ \A i \in 1..(Len(queue) - 1) : queue[i].lo + queue[i].len = queue[i + 1].lo
  /\ queue[Len(queue)].lo + queue[Len(queue)].len = 70000
  /\ lostBytes = 6000
  /\ events = <<"high">>

EventsNow == SubSeq(events', Len(events) + 1, Len(events'))

\* C18: with a sink attached, the queue empty and the sink not saturated, a
\* push whose writes are all accepted issues exactly one write, of the whole
\* chunk, leaves the queue empty and totalQueued 0, emits nothing and leaves
\* the sink unsaturated - so a sink that accepts every write is served by the
\* fast path for ever, one write per chunk in push order.
C18_FastPath ==
  /\ [][ ( /\ lastOp'.op = "push" /\ lastOp'.chunk # NotABuffer
        /\ Len(queue) = 0 /\ pushStream # Null /\ ~pausedByBackpressure
        /\ lastOp'.fast \notin {"throw", "full"}
        /\ ~lastOp'.drainThrew /\ ~pausedByBackpressure' ) =>
        /\ WrittenNow = <<lastOp'.chunk>>
        /\ queue' = <<>> /\ totalQueued' = 0
        /\ events' = events /\ highEmitted' = highEmitted ]_vars
  /\ [][ (lastOp'.op \in DrainOps /\ Len(queue) = 0 /\ ~highEmitted) =>
          (written' = written /\ events' = events /\ queue' = <<>>) ]_vars

C18_Witness ==
  /\ lastOp.op = "push" /\ lastOp.fast = "ok" /\ lastOp.chunk.len > batchBytes
  /\ Len(written) >= 2 /\ ContigEnd(written, 0) = pushed
  /\ queue = <<>> /\ totalQueued = 0 /\ events = <<>>

\* C20: a push that enqueues its chunk and, after eviction, holds at least
\* highWaterBytes with the latch clear emits 'high' exactly once, first, and
\* sets the latch; any other push emits no 'high'.
C20_WatermarkTrip ==
  [][ (lastOp'.op = "push" /\ lastOp'.chunk # NotABuffer) =>
        LET afterEvict == totalQueued + lastOp'.chunk.len - (lostBytes' - lostBytes)
            highs == { i \in 1..Len(EventsNow) : EventsNow[i] = "high" }
        IN IF /\ lastOp'.fast \in {"none", "throw"}
              /\ afterEvict >= highWaterBytes /\ ~highEmitted
           THEN /\ highs = {1}
                /\ highEmitted' = (Len(EventsNow) = 1)
           ELSE highs = {} ]_vars

C20_Witness ==
  /\ lastOp.op = "push" /\ lastOp.evicted > 0
  /\ totalQueued = highWaterBytes
  /\ events = <<"high">> /\ highEmitted

\* ------------------------------------------------------------ constructor claims
\* C19: every constructed controller has
\* resumeWaterBytes < highWaterBytes <= maxBufferBytes.
C19_ParamsOrdered ==
  resumeWaterBytes < highWaterBytes /\ highWaterBytes <= maxBufferBytes

\* ------------------------------------------------------------ drain claims
\* positions of 'ok' among the events emitted by the step under consideration
OksNow == { i \in 1..Len(EventsNow) : EventsNow[i] = "ok" }

\* the latch as the drain at the end of the step found it: set before the
\* step, or set by the step's own 'high'
LatchAtDrain == highEmitted \/ (EventsNow # <<>> /\ EventsNow[1] = "high")

\* the step under consideration ran a drain with a sink attached
DrainRan ==
  \/ lastOp'.op \in DrainOps /\ pushStream # Null
  \/ /\ lastOp'.op = "push" /\ lastOp'.chunk # NotABuffer
     /\ lastOp'.fast \in {"none", "throw"} /\ pushStream # Null

\* C21: a drain invocation with a sink attached that ends with the latch set
\* and totalQueued <= resumeWaterBytes clears the latch and emits 'ok'
\* exactly once, as its last event; no step emits 'ok' with more than
\* resumeWaterBytes queued or with the latch clear.
C21_ResumeSignal ==
  /\ [][ DrainRan =>
           IF LatchAtDrain /\ totalQueued' <= resumeWaterBytes
           THEN OksNow = {Len(EventsNow)} /\ ~highEmitted'
           ELSE OksNow = {} ]_vars
  /\ [][ OksNow # {} =>
           /\ DrainRan /\ LatchAtDrain
           /\ totalQueued' <= resumeWaterBytes ]_vars

C21_Witness ==
  /\ lastOp.op = "tick" /\ lastOp.wrote > 0 /\ Len(queue) >= 1
  /\ totalQueued <= resumeWaterBytes /\ ~highEmitted
  /\ Len(events) >= 2 /\ events[Len(events)] = "ok"

\* totalQueued as the drain of the step under consideration found it
DrainEntryQueued ==
  IF lastOp'.op = "push"
  THEN totalQueued + lastOp'.chunk.len - (lostBytes' - lostBytes)
  ELSE totalQueued

\* the drain of the step under consideration met no refusal and no error
AcceptingDrain == DrainRan /\ lastOp'.fullAt = 0 /\ ~lastOp'.drainThrew

\* what a tick or drain notification wrote and left, against the queue it
\* found: whole chunks from the front, then at most one leading part of the
\* next chunk whose remainder becomes the new head
DrainTookFront ==
  LET w == WrittenNow
      n == Len(w)
  IN IF lastOp'.split
     THEN /\ n >= 1 /\ n <= Len(queue)
          /\ \A i \in 1..(n - 1) : w[i] = queue[i]
          /\ w[n].lo = queue[n].lo
          /\ w[n].len > 0 /\ w[n].len < queue[n].len
          /\ queue' = <<[lo |-> w[n].lo + w[n].len,
                         len |-> queue[n].len - w[n].len]>>
                        \o SubSeq(queue, n + 1, Len(queue))
          /\ SumLen(w) = batchBytes
     ELSE /\ n <= Len(queue)
          /\ w = SubSeq(queue, 1, n)
          /\ queue' = SubSeq(queue, n + 1, Len(queue))

\* C22: a drain invocation whose writes are all accepted writes exactly
\* min(batchBytes, totalQueued at entry) bytes and lowers totalQueued by that
\* much; it takes whole chunks from the front and splits the head chunk at
\* the ceiling, leaving the unwritten remainder at the head.
C22_BatchCeiling ==
  [][ AcceptingDrain =>
        /\ SumLen(WrittenNow) = Min(batchBytes, DrainEntryQueued)
        /\ totalQueued' = DrainEntryQueued - SumLen(WrittenNow)
        /\ lastOp'.op \in DrainOps => DrainTookFront ]_vars

C22_Witness ==
  /\ lastOp.op = "tick" /\ lastOp.split /\ lastOp.fullAt = 0
  /\ ~lastOp.drainThrew /\ lastOp.wrote = batchBytes
  /\ Len(written) >= 2 /\ Len(queue) >= 1

\* C23: when a write inside a drain invocation returns false, the
\* backpressure flag is set and that write is the invocation's last, whatever
\* is still queued and however little of the batch was used; the chunk (or
\* leading part) whose write returned false has left the queue and is
\* counted as sent.
C23_StopsOnSaturation ==
  [][ lastOp'.fullAt # 0 =>
        /\ DrainRan
        /\ pausedByBackpressure'
        /\ Len(written') = lastOp'.fullAt
        /\ WrittenNow # <<>>
        /\ totalQueued' = DrainEntryQueued - SumLen(WrittenNow)
        /\ lastOp'.op \in DrainOps => DrainTookFront ]_vars

C23_Witness ==
  /\ lastOp.op = "tick" /\ lastOp.fullAt = Len(written)
  /\ lastOp.wrote > 0 /\ lastOp.wrote < batchBytes
  /\ Len(queue) >= 1 /\ totalQueued > 0 /\ pausedByBackpressure

\* ------------------------------------------------------------ backpressure flag
\* the step under consideration is a push of a Buffer
PushOfBuffer == lastOp'.op = "push" /\ lastOp'.chunk # NotABuffer

\* C24: a write that returns false, on the fast path or in a drain, sets the
\* backpressure flag; with the flag set a push does not attempt the direct
\* write but takes the queued path; only a drain notification from the
\* attached adapter clears the flag; and the direct write is attempted
\* exactly when the queue is empty, a sink is attached and the flag is clear.
C24_FlagGatesFastPath ==
  /\ [][ (lastOp'.fast = "full" \/ lastOp'.fullAt # 0) =>
           pausedByBackpressure' ]_vars
  /\ [][ (PushOfBuffer /\ pausedByBackpressure) => lastOp'.fast = "none" ]_vars
  /\ [][ (pausedByBackpressure /\ ~pausedByBackpressure') =>
           (lastOp'.op = "onDrain" /\ pushStream \in listeners) ]_vars
  /\ [][ PushOfBuffer =>
           ( lastOp'.fast # "none" <=>
             (Len(queue) = 0 /\ pushStream # Null /\ ~pausedByBackpressure) ) ]_vars

C24_Witness ==
  /\ lastOp.op = "push" /\ lastOp.fast = "none" /\ lastOp.fullAt = 0
  /\ pausedByBackpressure /\ pushStream # Null
  /\ Len(written) >= 1 /\ Len(queue) >= 1

\* the sinks whose 'drain' the controller should be listening to
Subscribed(stream) == IF stream = Null THEN {} ELSE {stream}

C29_AttachKeepsFlag ==
  /\ [][ lastOp'.op \in AttachOps =>
           pausedByBackpressure' = pausedByBackpressure ]_vars
  /\ [][ (PushOfBuffer /\ pausedByBackpressure) =>
           (lastOp'.fast = "none" /\ pausedByBackpressure') ]_vars
  /\ [][ (pausedByBackpressure /\ ~pausedByBackpressure') =>
           (lastOp'.op = "onDrain" /\ listeners = {pushStream}) ]_vars

C29_Witness ==
  /\ lastOp.op = "attachStream" /\ pausedByBackpressure
  /\ pushStream \in ExtSinks /\ Len(queue) = 0
  /\ Len(written) = 1 /\ pushCalls = 1

\* ------------------------------------------------------------ input validation
\* C27: a push whose argument is not a Buffer, or is an empty Buffer, leaves
\* the queue, totalQueued, lostBytes, the latch and the backpressure flag
\* unchanged and writes nothing to the sink.
C27_PushRejectsInvalid ==
  [][ (lastOp'.op = "push" /\ lastOp'.chunk.len <= 0) =>
        /\ queue' = queue /\ totalQueued' = totalQueued
        /\ lostBytes' = lostBytes /\ highEmitted' = highEmitted
        /\ pausedByBackpressure' = pausedByBackpressure
        /\ written' = written ]_vars

\* ------------------------------------------------------------ saturation
\* C28: while the backpressure flag is set, neither a drain tick nor the
\* drain that ends a push writes to the sink.
C28_DrainRespectsSaturation ==
  [][ (pausedByBackpressure /\ lastOp'.op \in {"tick", "push"}) =>
        written' = written ]_vars

\* ------------------------------------------------------------ restart claims
FailureOps == {"startError", "sessionStopped", "canceledError", "canceledOther"}

\* C26: every engine failure not preceded by an explicit stop() - a start
\* error, a session-stopped or a canceled notification - drops the connection
\* and leaves one more restart pending, and a pending restart eventually
\* calls start() again unless stop() is requested meanwhile.
C26_FailureRestarts ==
  /\ [][ (lastOp'.op \in FailureOps /\ ~userStopped) =>
           (timers' = timers + 1 /\ recognizer' = Null) ]_vars
  /\ \A n \in 1..MaxStarts :
       (timers > 0 /\ nextId = n /\ ~userStopped) ~> (nextId > n \/ userStopped)

\* ------------------------------------------------------------ drain liveness
\* from some point on a sink stays attached, the interval timer stays armed,
\* no push arrives and no write raises
QuietSink ==
  /\ pushStream # Null /\ drainTimer
  /\ lastOp.op # "push" /\ ~lastOp.drainThrew

\* C30: with the tick firing, once a sink stays attached whose writes do not
\* raise and pushes have stopped, the queue becomes and stays empty and a set
\* latch is cleared (its 'ok' emitted) - whether or not the sink returns
\* false or ever sends a drain notification.
C30_DrainLiveness == <>[]QuietSink => <>[](queue = <<>> /\ ~highEmitted)

C30_Witness ==
  /\ lastOp.op = "tick" /\ lastOp.wrote > 0 /\ lastOp.fullAt = 0
  /\ pausedByBackpressure /\ pushStream # Null
  /\ queue = <<>> /\ ~highEmitted
  /\ events # <<>> /\ events[Len(events)] = "ok"

\* ------------------------------------------------------------ eviction granularity
\* the step under consideration is a push that enqueued its chunk
QueuedPush == PushOfBuffer /\ lastOp'.fast \in {"none", "throw"}

\* C31: a push that enqueues its chunk evicts a whole number k of chunks
\* from the front of the queue (the pushed chunk last in it), k being the
\* least number that brings the kept bytes to maxBufferBytes or less: the
\* kept chunks are untouched by eviction, lostBytes grows by the length of
\* the k chunks, and putting back the last evicted one would exceed the
\* limit.  A pushed chunk longer than maxBufferBytes is therefore evicted
\* with everything queued before it.
C31_WholeChunkEviction ==
  /\ [][ QueuedPush =>
           LET Q == Append(queue, lastOp'.chunk)
           IN \E k \in 0..Len(Q) :
                LET kept == SubSeq(Q, k + 1, Len(Q))
                IN /\ lostBytes' - lostBytes = SumLen(SubSeq(Q, 1, k))
                   /\ lastOp'.evicted = lostBytes' - lostBytes
                   /\ SumLen(kept) <= maxBufferBytes
                   /\ k > 0 => SumLen(kept) + Q[k].len > maxBufferBytes
                   /\ SumLen(WrittenNow) + totalQueued' = SumLen(kept)
                   /\ Positions(WrittenNow \o queue') = Positions(kept)
                   /\ InOrder(WrittenNow \o queue') ]_vars
  /\ [][ (QueuedPush /\ lastOp'.chunk.len > maxBufferBytes) =>
           /\ queue' = <<>> /\ totalQueued' = 0 /\ WrittenNow = <<>>
           /\ lostBytes' = lostBytes + totalQueued + lastOp'.chunk.len ]_vars

C31_Witness ==
  /\ lastOp.op = "push" /\ lastOp.fast = "none"
  /\ lastOp.chunk.len > maxBufferBytes
  /\ lastOp.evicted > lastOp.chunk.len
  /\ queue = <<>> /\ totalQueued = 0 /\ lostBytes = lastOp.evicted

\* ------------------------------------------------------------ stale events
\* the step under consideration delivers a failure notification of a
\* recognizer that is not the session's current one
StaleEvent ==
  /\ lastOp'.op \in FailureOps
  /\ \E r \in 1..MaxStarts : recPhase'[r] # recPhase[r] /\ r # recognizer

\* C32: a canceled, session-stopped or start-error notification from a
\* recognizer the session has discarded leaves the current recognizer and
\* push stream in place and open, the attempt counter unchanged and no
\* further restart scheduled.
C32_StaleEventsIsolated ==
  [][ StaleEvent =>
        /\ recognizer' = recognizer /\ asrPushStream' = asrPushStream
        /\ sinkClosed' = sinkClosed /\ stopAsked' = stopAsked
        /\ reconnects' = reconnects /\ timers' = timers ]_vars

====
